---- MODULE Spec2Model ----
(***************************************************************************)
(* A model of the nostr client scripts: the SQLite event store             *)
(* (sqlite_local_database.py), the relay fetch and follow-list functions   *)
(* (main_basics_functions.py) and the proof-of-work miner                  *)
(* (advanced_nips.py).                                                     *)
(***************************************************************************)
EXTENDS Integers, Sequences, FiniteSets, TLC

(***************************************************************************)
(* Bounds of the model.                                                    *)
(***************************************************************************)
\* the store holds at most MaxRows rows over all its tables
MaxRows == 2
\* the message pool holds at most MaxPool event messages
MaxPool == 3
\* the relays are 1..NumRelays
NumRelays == 3
\* an event id has IdBits bits (256 in the source)
IdBits == 4
\* the miner is followed for at most MaxNonce failed attempts
MaxNonce == 5
\* time.time() returns 0..MaxClock
MaxClock == 2
\* a fetch of direct messages returns at most MaxMsgs messages
MaxMsgs == 3
\* the greatest timestamp the datetime module can format (year 9999)
MaxCreatedAt == 2

\* the primary-key values (ids, pubkeys), the variants of the other columns
\* and the timestamps the callers offer to the store
Keys == {1, 2}
Variants == {1, 2}
Timestamps == {1, 2}

Relays == 1..NumRelays

VARIABLES
    script,        \* which of the repository's scripts is running
    db,            \* the SQLite database: table name -> set of rows
    lastOp,        \* the last statement executed on the cursor and how it ended
    message_pool,  \* relay_manager.message_pool: the event messages received
    fetched,       \* the last fetch call and what it returned
    subscriptions, \* the subscriptions the calls have added to the relay manager
    note,          \* mine_note: the note dict being mined
    difficulty,    \* mine_note: the target difficulty
    nonce,         \* mine_note: the nonce of the next attempt
    now,           \* the clock time.time() reads
    mine_pc,       \* mine_note: "idle", "loop" or "returned"
    existing_follows,  \* update_follow_list: the caller's list of follows
    follow_call,   \* update_follow_list: the arguments of the call under way
    contact_event, \* update_follow_list: the kind-3 event built
    publish_log,   \* update_follow_list: the line printed for each url
    sent_to,       \* update_follow_list: the relays each publish_event sent to
    next_url,      \* update_follow_list: the position of the for loop
    returned,      \* update_follow_list: the value returned
    follow_pc,     \* update_follow_list: "idle", "sign", "publish" or "done"
    relay_info,    \* get_relay_info: the response it got and how it ended
    sent_msgs,     \* the chat: the user's sent messages, as fetched
    received_msgs, \* the chat: the messages the user received, as fetched
    rooms,         \* organize_chat_messages: the rooms it returned
    chat,          \* get_chat_for_pubkey: the call and what it returned
    streams        \* the inbound relay streams that save into the store

storeVars == <<db, lastOp>>
fetchVars == <<message_pool, fetched, subscriptions>>
mineVars == <<note, difficulty, nonce, now, mine_pc>>
followVars ==
    <<existing_follows, follow_call, contact_event, publish_log, sent_to,
      next_url, returned, follow_pc>>
infoVars == <<relay_info>>
chatVars == <<sent_msgs, received_msgs, rooms, chat>>
\* the statements of the store leave `streams` to the caller
nonStoreVars == <<script, fetchVars, mineVars, followVars, infoVars, chatVars>>
nonFetchVars ==
    <<script, storeVars, mineVars, followVars, infoVars, chatVars, streams>>
nonMineVars ==
    <<script, storeVars, fetchVars, followVars, infoVars, chatVars, streams>>
nonFollowVars ==
    <<script, storeVars, fetchVars, mineVars, infoVars, chatVars, streams>>
nonInfoVars ==
    <<script, storeVars, fetchVars, mineVars, followVars, chatVars, streams>>
nonChatVars ==
    <<script, storeVars, fetchVars, mineVars, followVars, infoVars, streams>>
vars ==
    <<script, storeVars, fetchVars, mineVars, followVars, infoVars, chatVars,
      streams>>

(***************************************************************************)
(* The schema: sqlite_local_database.initialize_database.                  *)
(***************************************************************************)
\* every value of the database is an integer; a column never written is NULL
NULL == -1

Tables ==
    {"last_update", "relays", "secret", "profiles", "direct_messages",
     "rooms", "notes", "comments", "reactions", "followers"}

Columns(t) ==
    CASE t = "last_update" ->
           {"id", "entity", "profile_id", "followers_id", "room_messages_id",
            "notes_id", "timestamp", "refreshed_tables"}
      [] t = "relays" ->
           {"id", "relay_name", "relay_url", "status", "description",
            "timestamp", "owner_pubkey"}
      [] t = "secret" -> {"id", "profile_id", "nostr_sec", "nostr_pub"}
      [] t = "profiles" ->
           {"pubkey", "name", "about", "picture", "banner", "website",
            "lud06", "lud16", "display_name", "timestamp"}
      [] t = "direct_messages" ->
           {"id", "sender_pubkey", "recipient_pubkey", "encrypted_content",
            "decrypted_content", "timestamp"}
      [] t = "rooms" -> {"id", "owner_pubkey", "direct_message_ids", "timestamp"}
      [] t = "notes" -> {"id", "pubkey", "content", "tags", "kind", "timestamp"}
      [] t = "comments" -> {"id", "pubkey", "content", "timestamp", "event_id"}
      [] t = "reactions" ->
           {"id", "event_id", "reaction_data", "timestamp", "pubkey", "content"}
      [] t = "followers" ->
           {"id", "pubkey", "follower_pubkey", "timestamp", "event_id"}

\* the PRIMARY KEY column of a table
PrimaryKey(t) == IF t = "profiles" THEN "pubkey" ELSE "id"

\* a schema without UNIQUE clauses
UniqueConstraints_none(t) == {}

\* the UNIQUE constraints of a table besides its primary key
UniqueConstraints(t) ==
    CASE t = "relays" -> {{"relay_url"}}
      [] t = "followers" -> {{"pubkey", "follower_pubkey"}}
      [] OTHER -> {}

(***************************************************************************)
(* The three statements the module executes on a cursor.  A row is a       *)
(* record of the table's columns.                                          *)
(***************************************************************************)
\* two rows collide on a set of columns (NULLs never collide)
SameOn(r, s, cs) == \A c \in cs : r[c] # NULL /\ r[c] = s[c]

\* a table whose id column is not declared PRIMARY KEY
Violates_no_primary_key(t, row, others) ==
    \E r \in others : \E u \in UniqueConstraints(t) : SameOn(r, row, u)

\* inserting or keeping row `row` beside the rows `others` breaks a constraint
Violates(t, row, others) ==
    \E r \in others :
        \/ SameOn(r, row, {PrimaryKey(t)})
        \/ \E u \in UniqueConstraints(t) : SameOn(r, row, u)

TotalRows ==
    Cardinality(db["last_update"]) + Cardinality(db["relays"])
    + Cardinality(db["secret"]) + Cardinality(db["profiles"])
    + Cardinality(db["direct_messages"]) + Cardinality(db["rooms"])
    + Cardinality(db["notes"]) + Cardinality(db["comments"])
    + Cardinality(db["reactions"]) + Cardinality(db["followers"])

\* a statement executed on the cursor: the statement, its parameters, the
\* database it found, cursor.rowcount, and "ok" or the exception it raised
Outcome(op, t, key, row, rowcount, result) ==
    [op |-> op, table |-> t, key |-> key, row |-> row, before |-> db,
     rowcount |-> rowcount, result |-> result]

NoStatement ==
    [op |-> "none", table |-> "none", key |-> NULL, row |-> NULL,
     before |-> [t \in Tables |-> {}], rowcount |-> 0, result |-> "ok"]

\* no statement is pending on the cursor
Idle == lastOp.op = "none"

\* an INSERT on a connection that enforces the FOREIGN KEY clauses of
\* comments and reactions
Insert_foreign_keys(t, row) ==
    IF \/ Violates(t, row, db[t])
       \/ /\ t \in {"comments", "reactions"}
          /\ \A n \in db["notes"] : n.id # row.event_id
    THEN /\ db' = db
         /\ lastOp' = Outcome("save", t, row[PrimaryKey(t)], row, 0, "IntegrityError")
         /\ UNCHANGED nonStoreVars
    ELSE /\ TotalRows < MaxRows
         /\ db' = [db EXCEPT ![t] = @ \cup {row}]
         /\ lastOp' = Outcome("save", t, row[PrimaryKey(t)], row, 1, "ok")
         /\ UNCHANGED nonStoreVars

\* cursor.execute("INSERT INTO t (columns of row) VALUES (?, ...)", values of row)
Insert(t, row) ==
    LET key == row[PrimaryKey(t)]
    IN IF Violates(t, row, db[t])
       THEN /\ db' = db
            /\ lastOp' = Outcome("save", t, key, row, 0, "IntegrityError")
            /\ UNCHANGED nonStoreVars
       ELSE /\ TotalRows < MaxRows
            /\ db' = [db EXCEPT ![t] = @ \cup {row}]
            /\ lastOp' = Outcome("save", t, key, row, 1, "ok")
            /\ UNCHANGED nonStoreVars

\* the row r after SET (columns of set) = (values of set)
Assign(r, set) ==
    [c \in DOMAIN r |-> IF c \in DOMAIN set THEN set[c] ELSE r[c]]

\* an UPDATE without its WHERE clause: every row of the table is assigned
Update_every_row(t, set, keycol, key) ==
    /\ db' = [db EXCEPT ![t] = {Assign(r, set) : r \in @}]
    /\ lastOp' = Outcome("update", t, key, set, Cardinality(db[t]), "ok")
    /\ UNCHANGED nonStoreVars

\* cursor.execute("UPDATE t SET (columns of set) = ? ... WHERE keycol = ?", ...)
Update(t, set, keycol, key) ==
    LET hit == {r \in db[t] : r[keycol] = key}
        rest == db[t] \ hit
        new == {Assign(r, set) : r \in hit}
    IN IF \E n \in new : Violates(t, n, rest)
       THEN /\ db' = db
            /\ lastOp' = Outcome("update", t, key, set, 0, "IntegrityError")
            /\ UNCHANGED nonStoreVars
       ELSE /\ db' = [db EXCEPT ![t] = rest \cup new]
            /\ lastOp' = Outcome("update", t, key, set, Cardinality(hit), "ok")
            /\ UNCHANGED nonStoreVars

\* cursor.execute("DELETE FROM t WHERE keycol = ?", (key,))
Delete(t, keycol, key) ==
    /\ db' = [db EXCEPT ![t] = {r \in @ : r[keycol] # key}]
    /\ lastOp' = Outcome("delete", t, key, NULL,
                         Cardinality({r \in db[t] : r[keycol] = key}), "ok")
    /\ UNCHANGED nonStoreVars

(***************************************************************************)
(* The save functions.  Each names the columns it writes; the columns of   *)
(* the table it does not name are NULL.                                    *)
(***************************************************************************)
save_last_update(id, entity, timestamp, refreshed_tables, profile_id) ==
    Insert("last_update",
           [id |-> id, entity |-> entity, timestamp |-> timestamp,
            refreshed_tables |-> refreshed_tables, profile_id |-> profile_id,
            followers_id |-> NULL, room_messages_id |-> NULL, notes_id |-> NULL])

\* a save_relay whose tuple of values has relay_name before relay_url
save_relay_swapped(id, relay_url, status, relay_name, description, timestamp, owner_pubkey) ==
    Insert("relays",
           [id |-> id, relay_url |-> relay_name, status |-> status,
            relay_name |-> relay_url, description |-> description,
            timestamp |-> timestamp, owner_pubkey |-> owner_pubkey])

save_relay(id, relay_url, status, relay_name, description, timestamp, owner_pubkey) ==
    Insert("relays",
           [id |-> id, relay_url |-> relay_url, status |-> status,
            relay_name |-> relay_name, description |-> description,
            timestamp |-> timestamp, owner_pubkey |-> owner_pubkey])

save_profile(pubkey, name, about, picture, banner, website, lud06, lud16, display_name, timestamp) ==
    Insert("profiles",
           [pubkey |-> pubkey, name |-> name, about |-> about,
            picture |-> picture, banner |-> banner, website |-> website,
            lud06 |-> lud06, lud16 |-> lud16, display_name |-> display_name,
            timestamp |-> timestamp])

save_note(id, pubkey, content, tags, kind, timestamp) ==
    Insert("notes",
           [id |-> id, pubkey |-> pubkey, content |-> content, tags |-> tags,
            kind |-> kind, timestamp |-> timestamp])

save_comment(id, pubkey, content, timestamp, event_id) ==
    Insert("comments",
           [id |-> id, pubkey |-> pubkey, content |-> content,
            timestamp |-> timestamp, event_id |-> event_id])

save_reaction(id, event_id, reaction_data, timestamp, pubkey, content) ==
    Insert("reactions",
           [id |-> id, event_id |-> event_id, reaction_data |-> reaction_data,
            timestamp |-> timestamp, pubkey |-> pubkey, content |-> content])

save_follower(id, pubkey, follower_pubkey, timestamp, event_id) ==
    Insert("followers",
           [id |-> id, pubkey |-> pubkey, follower_pubkey |-> follower_pubkey,
            timestamp |-> timestamp, event_id |-> event_id])

save_direct_message(id, sender_pubkey, recipient_pubkey, encrypted_content, decrypted_content, timestamp) ==
    Insert("direct_messages",
           [id |-> id, sender_pubkey |-> sender_pubkey,
            recipient_pubkey |-> recipient_pubkey,
            encrypted_content |-> encrypted_content,
            decrypted_content |-> decrypted_content, timestamp |-> timestamp])

save_room(id, owner_pubkey, direct_message_ids, timestamp) ==
    Insert("rooms",
           [id |-> id, owner_pubkey |-> owner_pubkey,
            direct_message_ids |-> direct_message_ids, timestamp |-> timestamp])

(***************************************************************************)
(* The update functions.                                                   *)
(***************************************************************************)
update_last_update(id, entity, timestamp, refreshed_tables, profile_id) ==
    Update("last_update",
           [entity |-> entity, timestamp |-> timestamp,
            refreshed_tables |-> refreshed_tables, profile_id |-> profile_id],
           "id", id)

update_relay(id, relay_url, status, relay_name, description, timestamp, owner_pubkey) ==
    Update("relays",
           [relay_url |-> relay_url, status |-> status,
            relay_name |-> relay_name, description |-> description,
            timestamp |-> timestamp, owner_pubkey |-> owner_pubkey],
           "id", id)

update_profile(pubkey, name, about, picture, banner, website, lud06, lud16, display_name, timestamp) ==
    Update("profiles",
           [name |-> name, about |-> about, picture |-> picture,
            banner |-> banner, website |-> website, lud06 |-> lud06,
            lud16 |-> lud16, display_name |-> display_name,
            timestamp |-> timestamp],
           "pubkey", pubkey)

update_room(id, owner_pubkey, direct_message_ids, timestamp) ==
    Update("rooms",
           [owner_pubkey |-> owner_pubkey,
            direct_message_ids |-> direct_message_ids, timestamp |-> timestamp],
           "id", id)

(***************************************************************************)
(* The delete functions.                                                   *)
(***************************************************************************)
delete_last_update(id) == Delete("last_update", "id", id)

delete_relay(id) == Delete("relays", "id", id)

delete_profile(pubkey) == Delete("profiles", "pubkey", pubkey)

\* a delete that cascades to the comments of the note
delete_note_cascading(id) ==
    /\ db' = [db EXCEPT !["notes"] = {r \in @ : r.id # id},
                        !["comments"] = {r \in @ : r.event_id # id}]
    /\ lastOp' = Outcome("delete", "notes", id, NULL,
                         Cardinality({r \in db["notes"] : r.id = id}), "ok")
    /\ UNCHANGED nonStoreVars

delete_note(id) == Delete("notes", "id", id)

delete_comment(id) == Delete("comments", "id", id)

delete_reaction(id) == Delete("reactions", "id", id)

delete_follower(id) == Delete("followers", "id", id)

delete_direct_message(id) == Delete("direct_messages", "id", id)

delete_room(id) == Delete("rooms", "id", id)

(***************************************************************************)
(* The callers of the store: every function is called with every input of  *)
(* the bounded sets.  A text argument is numbered after its column and a    *)
(* variant, so that two text parameters of a call never hold the same value.*)
(***************************************************************************)
ColumnNo(name) ==
    CASE name = "entity" -> 1 [] name = "refreshed_tables" -> 2
      [] name = "relay_url" -> 3 [] name = "relay_name" -> 4
      [] name = "description" -> 5 [] name = "name" -> 6
      [] name = "about" -> 7 [] name = "picture" -> 8
      [] name = "banner" -> 9 [] name = "website" -> 10
      [] name = "lud06" -> 11 [] name = "lud16" -> 12
      [] name = "display_name" -> 13 [] name = "content" -> 14
      [] name = "tags" -> 15 [] name = "reaction_data" -> 16
      [] name = "encrypted_content" -> 17 [] name = "decrypted_content" -> 18
      [] name = "direct_message_ids" -> 19

Txt(name, v) == 10 * ColumnNo(name) + v

SaveLastUpdate ==
    \E k \in Keys, v \in Variants, ts \in Timestamps :
        save_last_update(k, Txt("entity", v), ts, Txt("refreshed_tables", v), v)

SaveRelay ==
    \E k \in Keys, v \in Variants, ts \in Timestamps :
        save_relay(k, Txt("relay_url", v), v % 2, Txt("relay_name", v),
                   Txt("description", v), ts, v)

SaveProfile ==
    \E k \in Keys, v \in Variants, ts \in Timestamps :
        save_profile(k, Txt("name", v), Txt("about", v), Txt("picture", v),
                     Txt("banner", v), Txt("website", v), Txt("lud06", v),
                     Txt("lud16", v), Txt("display_name", v), ts)

SaveNote ==
    \E k \in Keys, v \in Variants, ts \in Timestamps :
        save_note(k, v, Txt("content", v), Txt("tags", v), 1, ts)

SaveComment ==
    \E k \in Keys, v \in Variants, ts \in Timestamps :
        save_comment(k, v, Txt("content", v), ts, v)

SaveReaction ==
    \E k \in Keys, v \in Variants, ts \in Timestamps :
        save_reaction(k, v, Txt("reaction_data", v), ts, v, Txt("content", v))

SaveFollower ==
    \E k \in Keys, v \in Variants, w \in Keys, ts \in Timestamps :
        save_follower(k, v, w, ts, v)

SaveDirectMessage ==
    \E k \in Keys, v \in Variants, ts \in Timestamps :
        save_direct_message(k, v, 3 - v, Txt("encrypted_content", v),
                            Txt("decrypted_content", v), ts)

SaveRoom ==
    \E k \in Keys, v \in Variants, ts \in Timestamps :
        save_room(k, v, Txt("direct_message_ids", v), ts)

UpdateLastUpdate ==
    \E k \in Keys, v \in Variants, ts \in Timestamps :
        update_last_update(k, Txt("entity", v), ts, Txt("refreshed_tables", v), v)

UpdateRelay ==
    \E k \in Keys, v \in Variants, ts \in Timestamps :
        update_relay(k, Txt("relay_url", v), v % 2, Txt("relay_name", v),
                     Txt("description", v), ts, v)

UpdateProfile ==
    \E k \in Keys, v \in Variants, ts \in Timestamps :
        update_profile(k, Txt("name", v), Txt("about", v), Txt("picture", v),
                       Txt("banner", v), Txt("website", v), Txt("lud06", v),
                       Txt("lud16", v), Txt("display_name", v), ts)

UpdateRoom ==
    \E k \in Keys, v \in Variants, ts \in Timestamps :
        update_room(k, v, Txt("direct_message_ids", v), ts)

DeleteLastUpdate ==
    \E k \in Keys : delete_last_update(k)

DeleteRelay ==
    \E k \in Keys : delete_relay(k)

DeleteProfile ==
    \E k \in Keys : delete_profile(k)

DeleteNote ==
    \E k \in Keys : delete_note(k)

DeleteComment ==
    \E k \in Keys : delete_comment(k)

DeleteReaction ==
    \E k \in Keys : delete_reaction(k)

DeleteFollower ==
    \E k \in Keys : delete_follower(k)

DeleteDirectMessage ==
    \E k \in Keys : delete_direct_message(k)

DeleteRoom ==
    \E k \in Keys : delete_room(k)

(***************************************************************************)
(* Inbound relay streams that save the notes they receive.  The module has *)
(* no connection handling of its own: the streams share one connection,    *)
(* or each has its own and SQLite lets one of them write at a time.        *)
(***************************************************************************)
Streams == {1, 2}

\* the ids of the notes the relays deliver; a note is the same on every relay
StreamNotes == {1, 2, 3}

IdleStream == [pc |-> "idle", id |-> NULL, result |-> "none"]

\* stream s executes save_note for a note it received
StreamSave(s) ==
    /\ streams[s].pc = "idle"
    /\ \E id \in StreamNotes :
           \/ /\ save_note(id, 1, Txt("content", 1), Txt("tags", 1), 1, 1)
              /\ streams' = [streams EXCEPT ![s] =
                                [pc |-> IF lastOp'.result = "ok"
                                        THEN "saved" ELSE "failed",
                                 id |-> id, result |-> lastOp'.result]]
           \/ \* another connection holds the write lock until it commits
              /\ \E o \in Streams \ {s} : streams[o].pc = "saved"
              /\ db' = db
              /\ lastOp' = Outcome("save", "notes", id, NULL, 0, "OperationalError")
              /\ streams' = [streams EXCEPT ![s] =
                                [pc |-> "failed", id |-> id,
                                 result |-> "OperationalError"]]
              /\ UNCHANGED nonStoreVars

\* stream s commits its statement
StreamCommit(s) ==
    /\ streams[s].pc = "saved"
    /\ streams' = [streams EXCEPT ![s].pc = "done"]
    /\ UNCHANGED <<db, lastOp, nonStoreVars>>

\* stream s turns to the next note
StreamNext(s) ==
    /\ streams[s].pc \in {"done", "failed"}
    /\ streams' = [streams EXCEPT ![s] = IdleStream]
    /\ UNCHANGED <<db, lastOp, nonStoreVars>>

(***************************************************************************)
(* The events the relays hold.  An id names one event; a relay may deliver *)
(* it to the pool any number of times.                                     *)
(***************************************************************************)
Event(id, pubkey, kind, tags, content, created_at) ==
    [id |-> id, pubkey |-> pubkey, kind |-> kind, tags |-> tags,
     content |-> content, created_at |-> created_at]

PTag(pubkey) == <<"p", pubkey>>

RelayEvents ==
    { \* the contact list of author 1, and the list that replaced it
      Event(1, 1, 3, <<PTag(1), PTag(2)>>, 0, 1),
      Event(2, 1, 3, <<PTag(2), PTag(3)>>, 0, 2),
      \* a note, and a note whose created_at is beyond what datetime formats
      Event(3, 2, 1, <<>>, 141, 1),
      Event(4, 2, 1, <<>>, 142, MaxCreatedAt + 1) }

\* Filters(kinds=..., authors=...)
Filters(kinds, authors) == [kinds |-> kinds, authors |-> authors]

\* the event is one a relay sends for a subscription with these filters
Matches(event, filters) ==
    event.kind \in filters.kinds /\ event.pubkey \in filters.authors

\* the filters of main for the notes of a profile, and the filters of
\* fetch_existing_follows for the contact lists of public_key
NotesFilters == Filters({1}, {2})

ContactsFilters(public_key) == Filters({3}, {public_key})

\* the user's public key
UserKey == {1}

\* the filters the fetch functions are called with
FetchFilters == {NotesFilters} \cup {ContactsFilters(k) : k \in UserKey}

\* an event message of the pool.  A subscription id is a uuid4 string made
\* for one subscription; here a subscription is named by its filters
EventMessage(event, subscription_id, url) ==
    [event |-> event, subscription_id |-> subscription_id, url |-> url]

\* the subscriptions of the messages of a pool that no call has added yet:
\* they are those of the call that is about to take the pool
Pending(pool, subs) == {pool[i].subscription_id : i \in 1..Len(pool)} \ subs

(***************************************************************************)
(* main_basics_functions.convert_timestamp                                 *)
(***************************************************************************)
\* datetime.utcfromtimestamp raises for a timestamp outside its range
Formattable(timestamp) == timestamp \in 0..MaxCreatedAt

\* the string "%Y-%m-%d %H:%M:%S UTC" of a timestamp in whole seconds
convert_timestamp(timestamp) == <<"UTC", timestamp>>

(***************************************************************************)
(* main_basics_functions.fetch_events_by_kind                              *)
(***************************************************************************)
event_data(event) ==
    [EventID |-> event.id, Pubkey |-> event.pubkey, Content |-> event.content,
     Kind |-> event.kind, Tags |-> event.tags,
     CreatedAt |-> convert_timestamp(event.created_at)]

\* a loop that takes every message
NotSeen_always(event_id, seen_event_ids) == TRUE

\* "if event_id not in seen_event_ids"
NotSeen(event_id, seen_event_ids) == event_id \notin seen_event_ids

\* the while loop over the message pool: what it has collected when it ends,
\* the messages it leaves in the pool, and whether it ended by an exception
RECURSIVE CollectEvents(_, _, _)
CollectEvents(pool, events, seen_event_ids) ==
    IF pool = <<>>
    THEN [events |-> events, pool |-> <<>>, raised |-> "none"]
    ELSE LET event_msg == Head(pool)
             event_id == event_msg.event.id
         IN IF NotSeen(event_id, seen_event_ids)
            THEN IF Formattable(event_msg.event.created_at)
                 THEN CollectEvents(Tail(pool),
                                    Append(events, event_data(event_msg.event)),
                                    seen_event_ids \cup {event_id})
                 ELSE [events |-> events, pool |-> Tail(pool),
                       raised |-> "convert_timestamp"]
            ELSE CollectEvents(Tail(pool), events, seen_event_ids)

\* a call of a fetch function: the pool it found, what it returned, and the
\* exception it caught, if any
Fetched(fn, filters, found, value, raised) ==
    [fn |-> fn, filters |-> filters, found |-> found, value |-> value,
     raised |-> raised]

NoFetch == Fetched("none", Filters({}, {}), <<>>, <<>>, "none")

\* relay_manager.run_sync(): a relay delivers an event message to the pool
Deliver ==
    /\ fetched.fn = "none"
    /\ Len(message_pool) < MaxPool
    /\ \E e \in RelayEvents, u \in Relays, f \in FetchFilters :
           /\ Matches(e, f)
           /\ f \in subscriptions \/ Pending(message_pool, subscriptions) \subseteq {f}
           /\ message_pool' = Append(message_pool, EventMessage(e, f, u))
    /\ UNCHANGED <<fetched, subscriptions, nonFetchVars>>

\* a handler that returns the events collected before the exception
fetch_events_by_kind_partial ==
    /\ fetched.fn = "none"
    /\ \E filters \in FetchFilters :
           /\ Pending(message_pool, subscriptions) \subseteq {filters}
           /\ \/ LET got == CollectEvents(message_pool, <<>>, {})
                 IN /\ message_pool' = got.pool
                    /\ fetched' = Fetched("fetch_events_by_kind", filters,
                                          message_pool, got.events, got.raised)
                    /\ subscriptions' = subscriptions \cup {filters}
              \/ /\ message_pool' = message_pool
                 /\ fetched' = Fetched("fetch_events_by_kind", filters,
                                       message_pool, <<>>, "relay_manager")
                 /\ \E added \in SUBSET {filters} :
                        /\ Pending(message_pool, subscriptions) \subseteq added
                        /\ subscriptions' = subscriptions \cup added
    /\ UNCHANGED nonFetchVars

\* the whole call, for the filters of the caller.  add_subscription_on_relay
\* or run_sync may raise, before or after the subscription was added; no
\* subscription is closed
fetch_events_by_kind ==
    /\ fetched.fn = "none"
    /\ \E filters \in FetchFilters :
           /\ Pending(message_pool, subscriptions) \subseteq {filters}
           /\ \/ LET got == CollectEvents(message_pool, <<>>, {})
                 IN /\ message_pool' = got.pool
                    /\ fetched' = Fetched("fetch_events_by_kind", filters,
                                          message_pool,
                                          IF got.raised = "none"
                                          THEN got.events ELSE <<>>,
                                          got.raised)
                    /\ subscriptions' = subscriptions \cup {filters}
              \/ /\ message_pool' = message_pool
                 /\ fetched' = Fetched("fetch_events_by_kind", filters,
                                       message_pool, <<>>, "relay_manager")
                 /\ \E added \in SUBSET {filters} :
                        /\ Pending(message_pool, subscriptions) \subseteq added
                        /\ subscriptions' = subscriptions \cup added
    /\ UNCHANGED nonFetchVars

(***************************************************************************)
(* main_basics_functions.fetch_existing_follows                            *)
(***************************************************************************)
\* the pubkeys of the "p" tags of an event
PTagged(event) ==
    {event.tags[i][2] : i \in {j \in 1..Len(event.tags) : event.tags[j][1] = "p"}}

\* the while loop over the message pool
RECURSIVE CollectFollows(_, _)
CollectFollows(pool, followed_users) ==
    IF pool = <<>>
    THEN followed_users
    ELSE LET event_msg == Head(pool)
         IN IF event_msg.event.kind = 3
            THEN CollectFollows(Tail(pool),
                                followed_users \cup PTagged(event_msg.event))
            ELSE CollectFollows(Tail(pool), followed_users)

\* the whole call; the list it returns is in no particular order: a set
fetch_existing_follows ==
    /\ fetched.fn = "none"
    /\ \E public_key \in UserKey :
           LET filters == ContactsFilters(public_key)
           IN /\ Pending(message_pool, subscriptions) \subseteq {filters}
              /\ \/ /\ message_pool' = <<>>
                    /\ fetched' = Fetched("fetch_existing_follows", filters,
                                          message_pool,
                                          CollectFollows(message_pool, {}), "none")
                    /\ subscriptions' = subscriptions \cup {filters}
                 \/ /\ message_pool' = message_pool
                    /\ fetched' = Fetched("fetch_existing_follows", filters,
                                          message_pool, {}, "relay_manager")
                    /\ \E added \in SUBSET {filters} :
                           /\ Pending(message_pool, subscriptions) \subseteq added
                           /\ subscriptions' = subscriptions \cup added
    /\ UNCHANGED nonFetchVars

\* main goes on with the returned value
Continue ==
    /\ fetched.fn # "none"
    /\ fetched' = NoFetch
    /\ UNCHANGED <<message_pool, subscriptions, nonFetchVars>>

(***************************************************************************)
(* advanced_nips.py: get_relay_info, which the script calls before it      *)
(* mines.                                                                  *)
(***************************************************************************)
\* what requests.get meets: an exception of requests, or a response with a
\* status code and a body that is a JSON document or something else
Responses ==
    {[error |-> e, status_code |-> 0, body |-> "none", doc |-> 0] :
         e \in {"ConnectionError", "Timeout"}}
    \cup {[error |-> "none", status_code |-> c, body |-> "json", doc |-> d] :
              c \in {200, 404, 500}, d \in {1, 2}}
    \cup {[error |-> "none", status_code |-> c, body |-> "html", doc |-> 0] :
              c \in {200, 404, 500}}

\* the value returned: the parsed document, or one of the two messages
RelayMetadata(doc) == [kind |-> "metadata", arg |-> doc, error |-> "none"]

FailedStatus(status_code) ==
    [kind |-> "Failed to retrieve relay info. Status code: ",
     arg |-> status_code, error |-> "none"]

ErrorOccurred(e) == [kind |-> "An error occurred: ", arg |-> 0, error |-> e]

NoValue == [kind |-> "none", arg |-> 0, error |-> "none"]

NoRequest ==
    [pc |-> "none",
     response |-> [error |-> "none", status_code |-> 0, body |-> "none", doc |-> 0],
     value |-> NoValue]

\* get_relay_info(relay_url).  response.json() raises a JSONDecodeError for a
\* body that is not JSON: a RequestException from requests 2.27 on, which
\* the handler catches, and a plain ValueError before, which it does not
get_relay_info ==
    /\ relay_info.pc = "none"
    /\ \E response \in Responses :
           IF response.error # "none"
           THEN relay_info' = [pc |-> "returned", response |-> response,
                               value |-> ErrorOccurred(response.error)]
           ELSE IF response.status_code = 200
           THEN IF response.body = "json"
                THEN relay_info' = [pc |-> "returned", response |-> response,
                                    value |-> RelayMetadata(response.doc)]
                ELSE \/ relay_info' = [pc |-> "returned", response |-> response,
                                       value |-> ErrorOccurred("JSONDecodeError")]
                     \/ relay_info' = [pc |-> "raised", response |-> response,
                                       value |-> NoValue]
           ELSE relay_info' = [pc |-> "returned", response |-> response,
                               value |-> FailedStatus(response.status_code)]
    /\ UNCHANGED nonInfoVars

(***************************************************************************)
(* advanced_nips.py: proof of work.  A hex digest is held as the integer   *)
(* it denotes, a value of 0 .. 2^IdBits - 1.                               *)
(***************************************************************************)
\* str(n): the decimal string of an integer
Str(n) == <<"str", n>>

\* a note dict without the key 'id'
NoId == 0 - 1

\* the number a tag contributes to the serialization
TagCode(tag) ==
    IF tag[1] = "nonce" THEN 1 + 3 * tag[2][2] + 5 * tag[3][2] ELSE 2 + tag[2]

RECURSIVE TagsCode(_)
TagsCode(tags) ==
    IF tags = <<>> THEN 0 ELSE TagCode(Head(tags)) + 2 * TagsCode(Tail(tags))

\* hashlib.sha256(json.dumps(note, sort_keys=True).encode()).hexdigest(): a
\* stand-in that depends on every key of the dict, 'id' included when present
Sha256OfJson(n) ==
    (3 * n.pubkey + 5 * n.created_at + 7 * n.kind + 11 * n.content
     + 13 * TagsCode(n.tags) + (IF n.id = NoId THEN 0 ELSE 17 * (n.id + 1)))
    % (2 ^ IdBits)

\* bin(n)[2:]: the binary digits of n, most significant first
RECURSIVE Bin(_)
Bin(n) == IF n < 2 THEN <<n>> ELSE Append(Bin(n \div 2), n % 2)

\* s.zfill(width)
RECURSIVE Zfill(_, _)
Zfill(s, width) == IF Len(s) >= width THEN s ELSE Zfill(<<0>> \o s, width)

\* s.lstrip('0')
RECURSIVE LStripZeros(_)
LStripZeros(s) ==
    IF s = <<>> \/ Head(s) # 0 THEN s ELSE LStripZeros(Tail(s))

\* a count of every zero bit of the digest, leading or not
count_leading_zero_bits_anywhere(hex_string) ==
    LET binary_string == Zfill(Bin(hex_string), IdBits)
    IN Cardinality({i \in 1..Len(binary_string) : binary_string[i] = 0})

count_leading_zero_bits(hex_string) ==
    LET binary_string == Zfill(Bin(hex_string), IdBits)
    IN Len(binary_string) - Len(LStripZeros(binary_string))

Templates ==
    {[pubkey |-> 1, created_at |-> 0, kind |-> 1, tags |-> tags,
      content |-> content, id |-> NoId] :
         tags \in {<<>>, <<<<"t", 1>>>>}, content \in {1, 2}}

\* a call mine_note(note, difficulty), once get_relay_info has returned
mine_note_call ==
    /\ relay_info.pc = "returned"
    /\ mine_pc = "idle"
    /\ \E n \in Templates, d \in 0..(IdBits + 1), t \in 0..MaxClock :
           /\ note' = n
           /\ difficulty' = d
           /\ now' = t
    /\ nonce' = 0
    /\ mine_pc' = "loop"
    /\ UNCHANGED nonMineVars

\* a loop that gives up after two failed passes and returns the note as it is
mine_note_attempt_limited ==
    /\ mine_pc = "loop"
    /\ \E t \in now..MaxClock :
           LET stamped == [note EXCEPT
                              !.tags = <<<<"nonce", Str(nonce), Str(difficulty)>>>>,
                              !.created_at = t]
               note_id == Sha256OfJson(stamped)
           IN /\ now' = t
              /\ IF count_leading_zero_bits(note_id) >= difficulty
                 THEN /\ note' = [stamped EXCEPT !.id = note_id]
                      /\ nonce' = nonce
                      /\ mine_pc' = "returned"
                 ELSE /\ note' = stamped
                      /\ nonce' = IF nonce < 2 THEN nonce + 1 ELSE nonce
                      /\ mine_pc' = IF nonce < 2 THEN "loop" ELSE "returned"
    /\ UNCHANGED <<difficulty, nonMineVars>>

\* a loop that steps the nonce by two
mine_note_attempt_by_two ==
    /\ mine_pc = "loop"
    /\ \E t \in now..MaxClock :
           LET stamped == [note EXCEPT
                              !.tags = <<<<"nonce", Str(nonce), Str(difficulty)>>>>,
                              !.created_at = t]
               note_id == Sha256OfJson(stamped)
           IN /\ now' = t
              /\ IF count_leading_zero_bits(note_id) >= difficulty
                 THEN /\ note' = [stamped EXCEPT !.id = note_id]
                      /\ nonce' = nonce
                      /\ mine_pc' = "returned"
                 ELSE /\ nonce < MaxNonce
                      /\ note' = stamped
                      /\ nonce' = nonce + 2
                      /\ mine_pc' = "loop"
    /\ UNCHANGED <<difficulty, nonMineVars>>

\* one pass of the while loop; the clock may have advanced since the last
mine_note_attempt ==
    /\ mine_pc = "loop"
    /\ \E t \in now..MaxClock :
           LET stamped == [note EXCEPT
                              !.tags = <<<<"nonce", Str(nonce), Str(difficulty)>>>>,
                              !.created_at = t]
               note_id == Sha256OfJson(stamped)
           IN /\ now' = t
              /\ IF count_leading_zero_bits(note_id) >= difficulty
                 THEN /\ note' = [stamped EXCEPT !.id = note_id]
                      /\ nonce' = nonce
                      /\ mine_pc' = "returned"
                 ELSE /\ nonce < MaxNonce
                      /\ note' = stamped
                      /\ nonce' = nonce + 1
                      /\ mine_pc' = "loop"
    /\ UNCHANGED <<difficulty, nonMineVars>>

\* the returned note is mined again, with a new difficulty
mine_note_again ==
    /\ mine_pc = "returned"
    /\ \E d \in 0..(IdBits + 1) : difficulty' = d
    /\ nonce' = 0
    /\ mine_pc' = "loop"
    /\ UNCHANGED <<note, now, nonMineVars>>

(***************************************************************************)
(* main_basics_functions.update_follow_list                                *)
(***************************************************************************)
FollowKeys == {1, 2, 3}

\* list.remove(x): the list without the first x
RECURSIVE Remove(_, _)
Remove(list, x) ==
    IF list = <<>> THEN <<>>
    ELSE IF Head(list) = x THEN Tail(list)
    ELSE <<Head(list)>> \o Remove(Tail(list), x)

\* a test that never finds the key
Contains_never(list, x) == FALSE

\* "pubkey_to_toggle in existing_follows"
Contains(list, x) == \E i \in 1..Len(list) : list[i] = x

\* None
None == <<>>

\* the call starts: the list is toggled and the contact event is built
update_follow_list_call ==
    /\ follow_pc = "idle"
    /\ \E pubkey_to_toggle \in FollowKeys, t \in now..MaxClock :
           LET toggled == IF Contains(existing_follows, pubkey_to_toggle)
                          THEN Remove(existing_follows, pubkey_to_toggle)
                          ELSE Append(existing_follows, pubkey_to_toggle)
           IN /\ follow_call' = [existing_follows |-> existing_follows,
                                 pubkey_to_toggle |-> pubkey_to_toggle]
              /\ existing_follows' = toggled
              /\ now' = t
              /\ contact_event' =
                     [kind |-> 3, content |-> 0, created_at |-> t,
                      tags |-> [i \in 1..Len(toggled) |-> PTag(toggled[i])]]
    /\ publish_log' = <<>>
    /\ sent_to' = <<>>
    /\ next_url' = 1
    /\ returned' = None
    /\ follow_pc' = "sign"
    /\ UNCHANGED <<script, storeVars, fetchVars, note, difficulty, nonce, mine_pc,
                   infoVars, chatVars, streams>>

\* private_key.sign_event(contact_event): it signs, or raises and the outer
\* handler prints the error
sign_event ==
    /\ follow_pc = "sign"
    /\ \/ follow_pc' = "publish"
       \/ follow_pc' = "done"
    /\ UNCHANGED <<existing_follows, follow_call, contact_event, publish_log,
                   sent_to, next_url, returned, nonFollowVars>>

\* one pass of "for url in relay_urls": relay_manager.publish_event(
\* contact_event), which is not given the url, sends to every relay of the
\* manager and returns, or raises after it has sent to some of them; the
\* line for url is printed
publish_event ==
    /\ follow_pc = "publish"
    /\ \E outcome \in {"ok", "error"} :
           /\ publish_log' = Append(publish_log, [url |-> next_url, outcome |-> outcome])
           /\ IF outcome = "ok"
              THEN sent_to' = Append(sent_to, Relays)
              ELSE \E k \in 0..(NumRelays - 1) :
                       sent_to' = Append(sent_to, 1..k)
    /\ next_url' = next_url + 1
    /\ follow_pc' = IF next_url = NumRelays THEN "done" ELSE "publish"
    /\ UNCHANGED <<existing_follows, follow_call, contact_event, returned,
                   nonFollowVars>>

\* the call returns None to the caller
update_follow_list_return ==
    /\ follow_pc = "done"
    /\ follow_pc' = "idle"
    /\ UNCHANGED <<existing_follows, follow_call, contact_event, publish_log,
                   sent_to, next_url, returned, nonFollowVars>>

(***************************************************************************)
(* main_basics_functions: the chat.  The user has pubkey 1.  The direct    *)
(* messages (kind 4) the relays hold: the user's own, and those that       *)
(* p-tag the user.  Content 0 is a ciphertext that cannot be decrypted;    *)
(* pubkey 0 is a key that is not hexadecimal.                              *)
(***************************************************************************)
SentEvents ==
    { Event(11, 1, 4, <<PTag(2)>>, 1, 2),
      Event(12, 1, 4, <<PTag(2)>>, 0, 0),
      Event(13, 1, 4, <<PTag(3)>>, 1, 1),
      \* a message without a p tag
      Event(14, 1, 4, <<>>, 1, 1) }

ReceivedEvents ==
    { Event(21, 2, 4, <<PTag(1)>>, 2, 1),
      Event(22, 2, 4, <<PTag(1)>>, 0, 2),
      Event(23, 3, 4, <<PTag(1)>>, 2, 0),
      \* a message of an author whose key is not hexadecimal
      Event(24, 0, 4, <<PTag(1)>>, 2, 0) }

\* binascii.unhexlify(hex_pubkey) does not raise
IsHex(hex_pubkey) == hex_pubkey # 0

\* the npub string of a key, and decode_npub: the key of an npub string
convert_hex_to_npub(hex_pubkey) == <<"npub", hex_pubkey>>

\* bech32_decode finds the prefix "npub"
IsNpub(npub) == npub[1] = "npub"

decode_npub(npub) == npub[2]

\* datetime.strptime(s, '%Y-%m-%d %H:%M:%S UTC'): the time the string tells
strptime(s) == s[2]

\* decrypt_msg without its handler: the exception of decrypt_message goes
\* on to the caller
decrypt_msg_uncaught(encrypted_message, pubkey_hex) ==
    IF encrypted_message # 0
    THEN <<"plaintext", encrypted_message>>
    ELSE <<"raise", encrypted_message>>

\* decrypt_msg: the plaintext, or str(e) of the exception decrypt_message
\* raised
decrypt_msg(encrypted_message, pubkey_hex) ==
    IF encrypted_message # 0
    THEN <<"plaintext", encrypted_message>>
    ELSE <<"str(e)", encrypted_message>>

\* {'type': type, **msg}
Typed(type, msg) ==
    [type |-> type, EventID |-> msg.EventID, Pubkey |-> msg.Pubkey,
     Content |-> msg.Content, Kind |-> msg.Kind, Tags |-> msg.Tags,
     CreatedAt |-> msg.CreatedAt]

all_msgs(sent, received) ==
    [i \in 1..Len(sent) |-> Typed("sent", sent[i])]
    \o [i \in 1..Len(received) |-> Typed("received", received[i])]

HasPTag(msg) == \E i \in 1..Len(msg.Tags) : msg.Tags[i][1] = "p"

\* get_other_pubkey: the first p tag of a sent message, the author of a
\* received one
get_other_pubkey(msg) ==
    IF msg.type = "sent"
    THEN LET i == CHOOSE i \in 1..Len(msg.Tags) :
                      /\ msg.Tags[i][1] = "p"
                      /\ \A j \in 1..(i - 1) : msg.Tags[j][1] # "p"
         IN msg.Tags[i][2]
    ELSE msg.Pubkey

\* next(...) of get_other_pubkey raises StopIteration
RaisesStopIteration(msg) == msg.type = "sent" /\ ~HasPTag(msg)

\* rooms[other_pubkey].append(msg), for every message in order
Grouped(msgs) ==
    [k \in {get_other_pubkey(msgs[i]) : i \in 1..Len(msgs)} |->
        SelectSeq(msgs, LAMBDA m : get_other_pubkey(m) = k)]

\* list.sort is stable: a message goes behind those that are not later
RECURSIVE InsertByTime(_, _)
InsertByTime(sorted, msg) ==
    IF sorted = <<>> THEN <<msg>>
    ELSE IF strptime(Head(sorted).CreatedAt) <= strptime(msg.CreatedAt)
    THEN <<Head(sorted)>> \o InsertByTime(Tail(sorted), msg)
    ELSE <<msg>> \o sorted

\* a room left in the order of the input
SortByCreatedAt_unsorted(messages) == messages

\* rooms[room].sort(key=lambda x: datetime.strptime(x['Created at'], ...))
RECURSIVE SortByCreatedAt(_)
SortByCreatedAt(messages) ==
    IF messages = <<>> THEN <<>>
    ELSE InsertByTime(SortByCreatedAt(SubSeq(messages, 1, Len(messages) - 1)),
                      messages[Len(messages)])

\* {}
EmptyDict == <<>>

NotOrganized == [pc |-> "none", value |-> EmptyDict]

NoChat ==
    [pc |-> "none", target_pubkey |-> <<"npub", 0>>, error |-> "none",
     chat_with |-> <<"npub", 0>>, messages |-> <<>>]

\* a fetch of main returned one more direct message
fetch_direct_message ==
    /\ rooms.pc = "none"
    /\ \/ \E e \in SentEvents :
              /\ Len(sent_msgs) < MaxMsgs
              /\ \A i \in 1..Len(sent_msgs) : sent_msgs[i].EventID # e.id
              /\ sent_msgs' = Append(sent_msgs, event_data(e))
              /\ UNCHANGED received_msgs
       \/ \E e \in ReceivedEvents :
              /\ Len(received_msgs) < MaxMsgs
              /\ \A i \in 1..Len(received_msgs) : received_msgs[i].EventID # e.id
              /\ received_msgs' = Append(received_msgs, event_data(e))
              /\ UNCHANGED sent_msgs
    /\ UNCHANGED <<rooms, chat, nonChatVars>>

\* organize_chat_messages(sent_msgs, received_msgs, private_key,
\* convert_hex_to_npub, decrypt_msg): the rooms, or {} when grouping or the
\* listing raised
organize_chat_messages ==
    /\ rooms.pc = "none"
    /\ LET msgs == all_msgs(sent_msgs, received_msgs)
       IN IF \E i \in 1..Len(msgs) : RaisesStopIteration(msgs[i])
          THEN rooms' = [pc |-> "returned", value |-> EmptyDict]
          ELSE LET grouped == Grouped(msgs)
                   sorted == [k \in DOMAIN grouped |-> SortByCreatedAt(grouped[k])]
               IN IF \E k \in DOMAIN sorted : ~IsHex(k)
                  THEN rooms' = [pc |-> "returned", value |-> EmptyDict]
                  ELSE rooms' = [pc |-> "returned", value |-> sorted]
    /\ UNCHANGED <<sent_msgs, received_msgs, chat, nonChatVars>>

\* the npub strings get_chat_for_pubkey is called with
Targets == {<<"npub", 2>>, <<"npub", 3>>, <<"nsec", 2>>}

\* get_chat_for_pubkey(rooms, target_pubkey, decode_npub, decrypt_msg,
\* private_key)
get_chat_for_pubkey ==
    /\ rooms.pc = "returned"
    /\ chat.pc = "none"
    /\ \E target_pubkey \in Targets :
           IF ~IsNpub(target_pubkey)
           THEN chat' = [pc |-> "returned", target_pubkey |-> target_pubkey,
                         error |-> "An error occurred while retrieving the chat: ",
                         chat_with |-> <<"npub", 0>>, messages |-> <<>>]
           ELSE LET target_raw_pubkey == decode_npub(target_pubkey)
                IN IF target_raw_pubkey \in DOMAIN rooms.value
                   THEN LET room == rooms.value[target_raw_pubkey]
                            content == [i \in 1..Len(room) |->
                                           decrypt_msg(room[i].Content, target_raw_pubkey)]
                        IN IF \E i \in 1..Len(room) : content[i][1] = "raise"
                           THEN chat' =
                                    [pc |-> "returned", target_pubkey |-> target_pubkey,
                                     error |-> "An error occurred while retrieving the chat: ",
                                     chat_with |-> <<"npub", 0>>, messages |-> <<>>]
                           ELSE chat' =
                                    [pc |-> "returned", target_pubkey |-> target_pubkey,
                                     error |-> "none", chat_with |-> target_pubkey,
                                     messages |->
                                         [i \in 1..Len(room) |->
                                             [direction |-> IF room[i].type = "sent"
                                                            THEN "Received" ELSE "Sent",
                                              timestamp |-> room[i].CreatedAt,
                                              content |-> content[i]]]]
                   ELSE chat' = [pc |-> "returned", target_pubkey |-> target_pubkey,
                                 error |-> "No chat found with the specified public key.",
                                 chat_with |-> <<"npub", 0>>, messages |-> <<>>]
    /\ UNCHANGED <<sent_msgs, received_msgs, rooms, nonChatVars>>

\* the caller asks for another chat
next_chat ==
    /\ chat.pc = "returned"
    /\ chat' = NoChat
    /\ UNCHANGED <<sent_msgs, received_msgs, rooms, nonChatVars>>

(***************************************************************************)
(* The specifications: one for each script of the repository.              *)
(***************************************************************************)
FetchOff ==
    /\ message_pool = <<>>
    /\ fetched = NoFetch
    /\ subscriptions = {}

MineOff ==
    /\ note = [pubkey |-> 1, created_at |-> 0, kind |-> 1, tags |-> <<>>,
               content |-> 1, id |-> NoId]
    /\ difficulty = 0
    /\ nonce = 0
    /\ now = 0
    /\ mine_pc = "idle"

FollowOff ==
    /\ existing_follows = <<>>
    /\ follow_call = [existing_follows |-> <<>>, pubkey_to_toggle |-> 0]
    /\ contact_event = [kind |-> 3, content |-> 0, created_at |-> 0, tags |-> <<>>]
    /\ publish_log = <<>>
    /\ sent_to = <<>>
    /\ next_url = 1
    /\ returned = None
    /\ follow_pc = "idle"

StoreOff ==
    /\ db = [t \in Tables |-> {}]
    /\ lastOp = NoStatement

InfoOff == relay_info = NoRequest

ChatOff ==
    /\ sent_msgs = <<>>
    /\ received_msgs = <<>>
    /\ rooms = NotOrganized
    /\ chat = NoChat

StreamsOff == streams = [s \in Streams |-> IdleStream]

InitStore ==
    /\ script = "nostr_testing_database"
    /\ StoreOff
    /\ FetchOff
    /\ MineOff
    /\ FollowOff
    /\ InfoOff
    /\ ChatOff
    /\ StreamsOff

\* conn.commit() of the caller: the statement is over
Commit ==
    /\ ~Idle
    /\ lastOp' = NoStatement
    /\ UNCHANGED <<db, nonStoreVars>>

NextStore ==
    /\ UNCHANGED streams
    /\ \/ Commit
       \/ Idle /\ SaveLastUpdate
       \/ Idle /\ SaveRelay
       \/ Idle /\ SaveProfile
       \/ Idle /\ SaveNote
       \/ Idle /\ SaveComment
       \/ Idle /\ SaveReaction
       \/ Idle /\ SaveFollower
       \/ Idle /\ SaveDirectMessage
       \/ Idle /\ SaveRoom
       \/ Idle /\ UpdateLastUpdate
       \/ Idle /\ UpdateRelay
       \/ Idle /\ UpdateProfile
       \/ Idle /\ UpdateRoom
       \/ Idle /\ DeleteLastUpdate
       \/ Idle /\ DeleteRelay
       \/ Idle /\ DeleteProfile
       \/ Idle /\ DeleteNote
       \/ Idle /\ DeleteComment
       \/ Idle /\ DeleteReaction
       \/ Idle /\ DeleteFollower
       \/ Idle /\ DeleteDirectMessage
       \/ Idle /\ DeleteRoom

SpecStore == InitStore /\ [][NextStore]_vars

\* a relay replays a note: the note is saved, deleted and saved again with no
\* commit between the statements
NextReplay == UNCHANGED streams /\ (SaveNote \/ DeleteNote)

SpecReplay == InitStore /\ [][NextReplay]_vars

NextStreams ==
    \E s \in Streams :
        \/ StreamSave(s)
        \/ StreamCommit(s)
        \/ StreamNext(s)

SpecStreams == InitStore /\ [][NextStreams]_vars

InitFetch ==
    /\ script = "main_basics_functions"
    /\ StoreOff
    /\ FetchOff
    /\ MineOff
    /\ FollowOff
    /\ InfoOff
    /\ ChatOff
    /\ StreamsOff

NextFetch ==
    \/ Deliver
    \/ fetch_events_by_kind
    \/ fetch_existing_follows
    \/ Continue

SpecFetch == InitFetch /\ [][NextFetch]_vars

InitMine ==
    /\ script = "advanced_nips"
    /\ StoreOff
    /\ FetchOff
    /\ MineOff
    /\ FollowOff
    /\ InfoOff
    /\ ChatOff
    /\ StreamsOff

NextMine ==
    \/ get_relay_info
    \/ mine_note_call
    \/ mine_note_attempt
    \/ mine_note_again

SpecMine == InitMine /\ [][NextMine]_vars

NextFollow ==
    \/ update_follow_list_call
    \/ sign_event
    \/ publish_event
    \/ update_follow_list_return

SpecFollow == InitFetch /\ [][NextFollow]_vars

NextChat ==
    \/ fetch_direct_message
    \/ organize_chat_messages
    \/ get_chat_for_pubkey
    \/ next_chat

SpecChat == InitFetch /\ [][NextChat]_vars

Init == InitStore \/ InitFetch \/ InitMine

Next ==
    \/ script = "nostr_testing_database" /\ NextStore
    \/ script = "main_basics_functions" /\ (NextFetch \/ NextFollow \/ NextChat)
    \/ script = "advanced_nips" /\ NextMine

Spec == Init /\ [][Next]_vars

(***************************************************************************)
(* The event id of the protocol: the hash of the serialization of pubkey,  *)
(* created_at, kind, tags and content.  The hash is a stand-in with values *)
(* in the ids the callers use.                                             *)
(***************************************************************************)
compute_id(pubkey, created_at, kind, tags, content) ==
    ((pubkey + created_at + kind + tags + content) % 2) + 1

(***************************************************************************)
(* The store.                                                              *)
(***************************************************************************)
\* the rows of table t with primary key k, in database d
RowsWithKey(d, t, k) == {r \in d[t] : r[PrimaryKey(t)] = k}

SaveTables ==
    {"profiles", "notes", "comments", "reactions", "followers",
     "direct_messages", "rooms"}

\* C1: a save of a row that is already stored (same key, same field values)
\* does not fail and leaves the store as the first save left it
C1_SaveTwiceIsSaveOnce ==
    (/\ lastOp.op = "save"
     /\ lastOp.table \in SaveTables
     /\ lastOp.row \in lastOp.before[lastOp.table])
    => (lastOp.result = "ok" /\ db = lastOp.before)

\* C5: a delete by key leaves no row with that key in its table, keeps every
\* other row of every table and adds none; with no such row nothing changes
C5_DeleteRemovesExactlyTheRow ==
    lastOp.op = "delete" =>
        /\ RowsWithKey(db, lastOp.table, lastOp.key) = {}
        /\ \A t \in Tables :
               db[t] = IF t = lastOp.table
                       THEN lastOp.before[t] \ RowsWithKey(lastOp.before, t, lastOp.key)
                       ELSE lastOp.before[t]
        /\ (RowsWithKey(lastOp.before, lastOp.table, lastOp.key) = {}
               => db = lastOp.before)
        /\ lastOp.result = "ok"

\* a note was deleted and a comment that refers to it is still stored
C5_Witness ==
    /\ lastOp.op = "delete"
    /\ lastOp.table = "notes"
    /\ lastOp.rowcount = 1
    /\ \E c \in db["comments"] : c.event_id = lastOp.key

\* C6: once a note has been deleted, no later statement brings a row of its
\* id back
C6_DeletedNoteStaysDeleted ==
    [][(/\ lastOp.op = "delete"
        /\ lastOp.table = "notes"
        /\ lastOp.rowcount = 1)
       => RowsWithKey(db', "notes", lastOp.key) = {}]_vars

\* C7: update_profile replaces the stored profile if and only if the new
\* timestamp is strictly greater than the stored one
C7_ProfileLastWriteWins ==
    (lastOp.op = "update" /\ lastOp.table = "profiles") =>
        \A r \in RowsWithKey(lastOp.before, "profiles", lastOp.key) :
            IF lastOp.row.timestamp > r.timestamp
            THEN Assign(r, lastOp.row) \in db["profiles"]
            ELSE r \in db["profiles"]

\* C8: no stored note has an id other than the id computed from its pubkey,
\* created_at, kind, tags and content
C8_StoredIdIsComputedId ==
    \A r \in db["notes"] :
        r.id = compute_id(r.pubkey, r.timestamp, r.kind, r.tags, r.content)

(***************************************************************************)
(* The fetch functions.                                                    *)
(***************************************************************************)
\* the event ids of the messages of a pool, in order
PoolIds(pool) == [i \in 1..Len(pool) |-> pool[i].event.id]

ReturnedIds(events) == [i \in 1..Len(events) |-> events[i].EventID]

FirstIndex(s, x) == CHOOSE i \in 1..Len(s) : s[i] = x /\ \A j \in 1..(i - 1) : s[j] # x

\* `out` holds every element of `s` exactly once, in the order of the first
\* occurrences in `s`
IsFirstArrivals(out, s) ==
    /\ {out[i] : i \in 1..Len(out)} = {s[i] : i \in 1..Len(s)}
    /\ \A i, j \in 1..Len(out) :
           i < j => out[i] # out[j] /\ FirstIndex(s, out[i]) < FirstIndex(s, out[j])

\* a message that is the first of its id in the pool cannot be formatted
FirstArrivalUnformattable(pool) ==
    \E i \in 1..Len(pool) :
        /\ \A j \in 1..(i - 1) : pool[j].event.id # pool[i].event.id
        /\ ~Formattable(pool[i].event.created_at)

C3_FollowsAreTheNewestList ==
    (fetched.fn = "fetch_existing_follows" /\ fetched.raised = "none") =>
        LET lists == {fetched.found[i].event : i \in
                         {j \in 1..Len(fetched.found) :
                              fetched.found[j].event.kind = 3}}
        IN lists # {} =>
               \E e \in lists :
                   /\ \A f \in lists : f.created_at <= e.created_at
                   /\ fetched.value = PTagged(e)

(***************************************************************************)
(* Proof of work                                                           *)
(***************************************************************************)
\* the number of leading zero bits of an IdBits-bit number
LeadingZeroBits(n) ==
    CHOOSE k \in 0..IdBits :
        /\ n < 2 ^ (IdBits - k)
        /\ k = IdBits \/ n >= 2 ^ (IdBits - k - 1)

NonceTags(n) == {i \in 1..Len(n.tags) : n.tags[i][1] = "nonce"}

\* C4: the id of the note mine_note returns has at least `difficulty` leading
\* zero bits, and the nonce tag of the note records that difficulty.
C4_MinedIdMeetsDifficulty ==
    mine_pc = "returned" =>
        /\ LeadingZeroBits(note.id) >= difficulty
        /\ NonceTags(note) # {}
        /\ \A i \in NonceTags(note) : note.tags[i][3] = Str(difficulty)

\* mine_note has returned a note of difficulty 2 or more after failed attempts
C4_Witness ==
    /\ mine_pc = "returned"
    /\ difficulty >= 2
    /\ nonce >= 1

(***************************************************************************)
(* Publishing the follow list                                              *)
(***************************************************************************)
Published == {i \in 1..Len(publish_log) : publish_log[i].outcome = "ok"}

\* C9: when publish_event raises for one relay, update_follow_list goes on to
\* the remaining relays, and the caller receives a report of which relays
\* succeeded and which failed.
C9_CallerReceivesReport ==
    (follow_pc = "done" /\ Len(publish_log) = NumRelays) =>
        returned = publish_log

\* C10: the local follow list changes only once a relay has taken the new
\* contact event: when no publish succeeded, existing_follows is what it was
\* before the call.
C10_FollowsChangeOnlyWhenPublished ==
    (follow_pc = "done" /\ Published = {}) =>
        existing_follows = follow_call.existing_follows

Elems(list) == {list[i] : i \in 1..Len(list)}

NoDuplicates(list) ==
    \A i, j \in 1..Len(list) : i < j => list[i] # list[j]

\* the symmetric difference of S and {x}
Toggled(S, x) == IF x \in S THEN S \ {x} ELSE S \cup {x}

\* C11: a call of update_follow_list builds a kind-3 event whose p tags are
\* the whole updated list; the updated follow set is the set before the call
\* with the pubkey removed if it was there and added if it was not; a list
\* without duplicates stays without duplicates; and a second toggle of the
\* same pubkey gives back the follow set the first one found.
C11_ToggleIsSymmetricDifference ==
    [][(follow_pc = "idle" /\ follow_pc' = "sign") =>
          /\ Elems(existing_follows') =
                 Toggled(Elems(existing_follows), follow_call'.pubkey_to_toggle)
          /\ contact_event'.kind = 3
          /\ contact_event'.tags =
                 [i \in 1..Len(existing_follows') |-> <<"p", existing_follows'[i]>>]
          /\ (NoDuplicates(existing_follows) => NoDuplicates(existing_follows'))
          /\ (follow_call'.pubkey_to_toggle = follow_call.pubkey_to_toggle
                 => Elems(existing_follows') = Elems(follow_call.existing_follows))
      ]_vars

\* a pubkey was removed from a list of two or more and the event with the
\* remaining list was published to a relay
C11_Witness ==
    /\ follow_pc = "publish"
    /\ Len(follow_call.existing_follows) >= 2
    /\ follow_call.pubkey_to_toggle \in Elems(follow_call.existing_follows)
    /\ Published # {}
    /\ Len(contact_event.tags) = Len(follow_call.existing_follows) - 1

(***************************************************************************)
(* The chat                                                                *)
(***************************************************************************)
\* the event a message was made from, and the time it was created
ChatEvent(id) == CHOOSE e \in SentEvents \cup ReceivedEvents : e.id = id

CreatedAtOf(msg) == ChatEvent(msg.EventID).created_at

InTimeOrder(times) ==
    \A i, j \in 1..Len(times) : i < j => times[i] <= times[j]

\* C12: in every room organize_chat_messages returns the messages are in
\* non-decreasing order of creation time, whatever the order of the input
\* lists, and get_chat_for_pubkey returns the messages of a room in the order
\* of the room.
C12_RoomsInTimeOrder ==
    /\ rooms.pc = "returned" =>
           \A k \in DOMAIN rooms.value :
               InTimeOrder([i \in 1..Len(rooms.value[k]) |->
                               CreatedAtOf(rooms.value[k][i])])
    /\ (chat.pc = "returned" /\ chat.error = "none") =>
           LET room == rooms.value[chat.target_pubkey[2]]
           IN /\ Len(chat.messages) = Len(room)
              /\ \A i \in 1..Len(room) :
                     chat.messages[i].timestamp =
                         convert_timestamp(CreatedAtOf(room[i]))

\* the messages of a room arrived out of order, the room holds them in
\* another order than they arrived in, and its chat was returned
C12_Witness ==
    /\ rooms.pc = "returned"
    /\ chat.pc = "returned"
    /\ chat.error = "none"
    /\ Len(chat.messages) >= 3
    /\ LET k == chat.target_pubkey[2]
       IN Grouped(all_msgs(sent_msgs, received_msgs))[k] # rooms.value[k]

\* the places of the rooms: a room and an index into it
Places ==
    UNION {{<<k, i>> : i \in 1..Len(rooms.value[k])} : k \in DOMAIN rooms.value}

\* k is the counterparty of event e: the p-tagged recipient of a message the
\* user sent, the author of one the user received
IsCounterparty(type, e, k) ==
    IF type = "sent"
    THEN \E i \in 1..Len(e.tags) : e.tags[i] = <<"p", k>>
    ELSE e.pubkey = k

\* the message is at exactly one place, in the room of its counterparty
PlacedOnce(type, msg) ==
    LET at == {pl \in Places : rooms.value[pl[1]][pl[2]] = Typed(type, msg)}
    IN /\ Cardinality(at) = 1
       /\ \A pl \in at : IsCounterparty(type, ChatEvent(msg.EventID), pl[1])

HasCounterparty(type, msg) ==
    \E k \in {0, 1, 2, 3} : IsCounterparty(type, ChatEvent(msg.EventID), k)

\* C13: organize_chat_messages places every input message that has a
\* counterparty in exactly one room, the room of its counterparty, and the
\* rooms hold no message that was not in the input.
C13_EveryMessageInItsRoom ==
    rooms.pc = "returned" =>
        /\ \A i \in 1..Len(sent_msgs) :
               HasCounterparty("sent", sent_msgs[i])
                   => PlacedOnce("sent", sent_msgs[i])
        /\ \A i \in 1..Len(received_msgs) :
               HasCounterparty("received", received_msgs[i])
                   => PlacedOnce("received", received_msgs[i])
        /\ \A pl \in Places :
               LET m == rooms.value[pl[1]][pl[2]]
               IN \/ \E i \in 1..Len(sent_msgs) : m = Typed("sent", sent_msgs[i])
                  \/ \E i \in 1..Len(received_msgs) :
                         m = Typed("received", received_msgs[i])

\* C14: when the decryption of a message of a room fails, get_chat_for_pubkey
\* still returns the room, every message at its place: the failed message
\* with the text of the error as its content, the others with their
\* plaintext.
C14_FailedDecryptionStaysInPlace ==
    (/\ chat.pc = "returned"
     /\ chat.target_pubkey[1] = "npub"
     /\ chat.target_pubkey[2] \in DOMAIN rooms.value)
    => LET room == rooms.value[chat.target_pubkey[2]]
       IN /\ chat.error = "none"
          /\ chat.chat_with = chat.target_pubkey
          /\ Len(chat.messages) = Len(room)
          /\ \A i \in 1..Len(room) :
                 LET e == ChatEvent(room[i].EventID)
                 IN /\ chat.messages[i].timestamp = room[i].CreatedAt
                    /\ chat.messages[i].content =
                           IF e.content = 0
                           THEN <<"str(e)", e.content>>
                           ELSE <<"plaintext", e.content>>

\* a chat was returned in which a message that could not be decrypted stands
\* before one that could
C14_Witness ==
    /\ chat.pc = "returned"
    /\ chat.error = "none"
    /\ \E i, j \in 1..Len(chat.messages) :
           /\ i < j
           /\ chat.messages[i].content[1] = "str(e)"
           /\ chat.messages[j].content[1] = "plaintext"

(***************************************************************************)
(* The store: references, unique pairs, concurrent streams                 *)
(***************************************************************************)
\* row r of table t has the primary key of `row`, or its relay_url, or its
\* (pubkey, follower_pubkey) pair
KeyTaken(t, row, r) ==
    \/ r[PrimaryKey(t)] = row[PrimaryKey(t)]
    \/ t = "relays" /\ r.relay_url = row.relay_url
    \/ /\ t = "followers"
       /\ r.pubkey = row.pubkey
       /\ r.follower_pubkey = row.follower_pubkey

SamePair(r, s) ==
    r.pubkey = s.pubkey /\ r.follower_pubkey = s.follower_pubkey

\* C16: the followers table never holds two rows of one (pubkey,
\* follower_pubkey) pair, whatever the ids of the rows; a save_follower of a
\* pair that is stored is rejected and leaves the table as it was.
C16_OneRowPerFollowerPair ==
    /\ \A r, s \in db["followers"] : SamePair(r, s) => r = s
    /\ (/\ lastOp.op = "save"
        /\ lastOp.table = "followers"
        /\ \E r \in lastOp.before["followers"] : SamePair(r, lastOp.row))
       => (lastOp.result = "IntegrityError" /\ db = lastOp.before)

\* a save_follower with a new row id was rejected for a pair that is stored
C16_Witness ==
    /\ lastOp.op = "save"
    /\ lastOp.table = "followers"
    /\ lastOp.result = "IntegrityError"
    /\ \A r \in db["followers"] : r.id # lastOp.key
    /\ \E r \in db["followers"] : SamePair(r, lastOp.row)

\* C17: when two streams have saved the same note id concurrently, both
\* saves ended without failure and the store holds exactly one row of that id.
C17_ConcurrentSavesBothSucceed ==
    \A s, o \in Streams :
        (/\ s # o
         /\ streams[s].pc \in {"done", "failed"}
         /\ streams[o].pc \in {"done", "failed"}
         /\ streams[s].id = streams[o].id)
        => /\ streams[s].result = "ok"
           /\ streams[o].result = "ok"
           /\ Cardinality(RowsWithKey(db, "notes", streams[s].id)) = 1

(***************************************************************************)
(* Proof of work: the id                                                   *)
(***************************************************************************)
\* the hash of the serialization of pubkey, created_at, kind, tags and
\* content of a note, and of nothing else
HashOfFields(n) == Sha256OfJson([n EXCEPT !.id = NoId])

\* C18: the id of the note mine_note returns is the hash of the serialization
\* of that note's pubkey, created_at, kind, tags and content, also when the
\* template already had an id.
C18_MinedIdIsHashOfFields ==
    mine_pc = "returned" => note.id = HashOfFields(note)

(***************************************************************************)
(* The relay information document                                          *)
(***************************************************************************)
\* C19: get_relay_info never raises: for a response with status 200 it
\* returns the relay metadata, and for any other status and for a network
\* error it returns a description of the failure.
C19_RelayInfoNeverRaises ==
    relay_info.pc # "none" =>
        /\ relay_info.pc = "returned"
        /\ IF /\ relay_info.response.error = "none"
              /\ relay_info.response.status_code = 200
           THEN relay_info.value.kind = "metadata"
           ELSE relay_info.value.kind \in
                    {"Failed to retrieve relay info. Status code: ",
                     "An error occurred: "}

(***************************************************************************)
(* The store: save, then read by key                                       *)
(***************************************************************************)
TextColumns ==
    {"entity", "refreshed_tables", "relay_url", "relay_name", "description",
     "name", "about", "picture", "banner", "website", "lud06", "lud16",
     "display_name", "content", "tags", "reaction_data", "encrypted_content",
     "decrypted_content", "direct_message_ids"}

\* every text column of row r holds a value that was passed for that column
InItsColumn(r) ==
    \A c \in DOMAIN r \cap TextColumns :
        r[c] # NULL => r[c] \div 10 = ColumnNo(c)

\* after the save, a read by the key finds one row, the values in their
\* columns, and every other row of every table is as it was
SavedAndRead ==
    /\ lastOp.result = "ok"
    /\ RowsWithKey(db, lastOp.table, lastOp.key) = {lastOp.row}
    /\ InItsColumn(lastOp.row)
    /\ \A t \in Tables :
           db[t] \ RowsWithKey(db, t, lastOp.key) =
               lastOp.before[t] \ RowsWithKey(db, t, lastOp.key)
    /\ \A t \in Tables \ {lastOp.table} : db[t] = lastOp.before[t]

\* C20, as stated: a save under a key that is not stored, then a read by that
\* key, gives exactly one row with the saved values, and no other row changes
C20_SaveThenReadByKey ==
    (/\ lastOp.op = "save"
     /\ RowsWithKey(lastOp.before, lastOp.table, lastOp.key) = {})
    => SavedAndRead

\* C20, amended: the same, for a save that also collides with no relay_url
\* and no (pubkey, follower_pubkey) pair that is stored; a save that does
\* collide is rejected and the store stays as it was
C20_SaveThenReadUnlessUniqueTaken ==
    (/\ lastOp.op = "save"
     /\ RowsWithKey(lastOp.before, lastOp.table, lastOp.key) = {})
    => IF \E r \in lastOp.before[lastOp.table] :
              KeyTaken(lastOp.table, lastOp.row, r)
       THEN /\ lastOp.result = "IntegrityError"
            /\ db = lastOp.before
            /\ RowsWithKey(db, lastOp.table, lastOp.key) = {}
       ELSE SavedAndRead

\* a relay was saved beside a relay that was stored, which is unchanged
C20_Witness ==
    /\ lastOp.op = "save"
    /\ lastOp.table = "relays"
    /\ lastOp.result = "ok"
    /\ Cardinality(lastOp.before["relays"]) = 1
    /\ Cardinality(db["relays"]) = 2

(***************************************************************************)
(* The store: what an update touches                                       *)
(***************************************************************************)
\* row n is row r with the columns of `set` assigned and the others kept
Updated(n, r, set) ==
    \A c \in DOMAIN r : n[c] = IF c \in DOMAIN set THEN set[c] ELSE r[c]

\* the statement found one row of its key and left one row of that key with
\* the new values, or found none and left the store as it was; the rows of
\* other keys and tables are as they were
UpdatedExactlyTheRow ==
    LET t == lastOp.table
        old == RowsWithKey(lastOp.before, t, lastOp.key)
        new == RowsWithKey(db, t, lastOp.key)
    IN /\ lastOp.result = "ok"
       /\ InItsColumn(lastOp.row)
       /\ Cardinality(new) = Cardinality(old)
       /\ \A n \in new : \E r \in old : Updated(n, r, lastOp.row)
       /\ db[t] \ new = lastOp.before[t] \ old
       /\ \A u \in Tables \ {t} : db[u] = lastOp.before[u]
       /\ old = {} => db = lastOp.before

\* the new relay_url of an update_relay is the relay_url of another relay
UrlOfAnotherRelay ==
    /\ lastOp.table = "relays"
    /\ RowsWithKey(lastOp.before, "relays", lastOp.key) # {}
    /\ \E r \in lastOp.before["relays"] :
           r.id # lastOp.key /\ r.relay_url = lastOp.row.relay_url

\* C21, as stated: an update leaves the row of its key with the new values,
\* also when the timestamp is not newer, and every other row as it was; with
\* no row of that key it changes nothing and creates no row
C21_UpdateTouchesExactlyTheRow ==
    lastOp.op = "update" => UpdatedExactlyTheRow

\* C21, amended: the same, except for an update_relay whose new relay_url is
\* that of another stored relay: it is rejected and the store stays as it was
C21_UpdateTouchesTheRowUnlessUrlTaken ==
    lastOp.op = "update" =>
        IF UrlOfAnotherRelay
        THEN lastOp.result = "IntegrityError" /\ db = lastOp.before
        ELSE UpdatedExactlyTheRow

\* a row was given new field values with the timestamp it had, beside another
\* row of its table
C21_Witness ==
    /\ lastOp.op = "update"
    /\ lastOp.result = "ok"
    /\ Cardinality(db[lastOp.table]) = 2
    /\ \E r \in RowsWithKey(lastOp.before, lastOp.table, lastOp.key) :
           /\ r.timestamp = lastOp.row.timestamp
           /\ r \notin db[lastOp.table]

(***************************************************************************)
(* The chat: the direction of a message                                    *)
(***************************************************************************)
\* the message was fetched as one of the user's sent messages
FromSent(msg) == \E j \in 1..Len(sent_msgs) : sent_msgs[j].EventID = msg.EventID

\* C22: in the chat get_chat_for_pubkey returns, a message taken from the
\* user's sent messages has the direction "Sent" and a message taken from
\* the received messages has the direction "Received".
C22_DirectionIsTrueDirection ==
    (chat.pc = "returned" /\ chat.error = "none") =>
        LET room == rooms.value[chat.target_pubkey[2]]
        IN \A i \in 1..Len(chat.messages) :
               chat.messages[i].direction =
                   IF FromSent(room[i]) THEN "Sent" ELSE "Received"

(***************************************************************************)
(* Proof of work: the order of the nonces                                  *)
(***************************************************************************)
\* the nonce of the nonce tag the last attempt wrote into the note
NonceOf(n) == n.tags[1][2][2]

\* C23: mine_note starts with nonce 0; every attempt writes the nonce tag
\* with the current nonce; an attempt whose id does not meet the target is
\* followed by an attempt with the next nonce, and the first attempt whose id
\* meets the target returns, so the nonce of the returned note is the number
\* of failed attempts; with difficulty 0 the first attempt returns, nonce 0.
C23_NoncesInIncreasingOrder ==
    [][/\ (mine_pc # "loop" /\ mine_pc' = "loop") => nonce' = 0
       /\ mine_pc = "loop" =>
              /\ NonceTags(note') = {1}
              /\ NonceOf(note') = nonce
              /\ IF LeadingZeroBits(Sha256OfJson([note' EXCEPT !.id = note.id]))
                        >= difficulty
                 THEN mine_pc' = "returned" /\ nonce' = nonce
                 ELSE mine_pc' = "loop" /\ nonce' = nonce + 1
              /\ difficulty = 0 => (mine_pc' = "returned" /\ NonceOf(note') = 0)
      ]_vars

\* mine_note returned a note with nonce 2 or more, after that many failures
C23_Witness ==
    /\ mine_pc = "returned"
    /\ nonce >= 2
    /\ NonceOf(note) = nonce

(***************************************************************************)
(* Proof of work: termination                                              *)
(***************************************************************************)
\* the hash of the pass that made note n2 from note n1 meets difficulty d
PassMeets(n1, n2, d) ==
    LeadingZeroBits(Sha256OfJson([n2 EXCEPT !.id = n1.id])) >= d

\* C24: a pass of mine_note returns exactly when its id has at least
\* `difficulty` leading zero bits and otherwise goes on to the next pass,
\* however many passes have failed; what it returns is the note with that
\* id, never a failure value; and with a difficulty above the number of bits
\* of an id no pass returns.
C24_ReturnsOnlyOnSuccess ==
    [][mine_pc = "loop" =>
          /\ mine_pc' \in {"loop", "returned"}
          /\ mine_pc' = "returned" <=> PassMeets(note, note', difficulty)
          /\ mine_pc' = "returned" =>
                 /\ note'.id \in 0..(2 ^ IdBits - 1)
                 /\ LeadingZeroBits(note'.id) >= difficulty
          /\ mine_pc' = "loop" => nonce' = nonce + 1
          /\ difficulty > IdBits => mine_pc' = "loop"
      ]_vars

\* with a difficulty above the number of bits of an id, every pass the model
\* follows has failed and the loop is still running
C24_Witness ==
    /\ mine_pc = "loop"
    /\ difficulty > IdBits
    /\ nonce = MaxNonce

(***************************************************************************)
(* The fetch: failures                                                     *)
(***************************************************************************)
\* the index of the first message of the pool that is the first of its id
\* and cannot be formatted
FirstFailure(pool) ==
    CHOOSE i \in 1..Len(pool) :
        /\ \A j \in 1..(i - 1) : pool[j].event.id # pool[i].event.id
        /\ ~Formattable(pool[i].event.created_at)
        /\ \A k \in 1..(i - 1) :
               \/ Formattable(pool[k].event.created_at)
               \/ \E j \in 1..(k - 1) : pool[j].event.id = pool[k].event.id

\* C25: a call of fetch_events_by_kind in which the relay manager raises, or
\* in which a message cannot be processed, ends with the handler and returns
\* the empty list, without the events collected before the failure; the
\* caller has the value and can go on, and the next fetch can be called.
C25_FetchFailureReturnsEmptyList ==
    /\ fetched.fn = "fetch_events_by_kind" =>
           /\ (\/ fetched.raised = "relay_manager"
               \/ FirstArrivalUnformattable(fetched.found))
                  => (fetched.raised # "none" /\ fetched.value = <<>>)
           /\ fetched.raised = "none" => Len(fetched.value) <= Len(fetched.found)
           /\ ENABLED Continue
    /\ fetched.fn = "none" => ENABLED fetch_events_by_kind

\* the call had collected an event when a later message could not be
\* formatted, and it returned the empty list
C25_Witness ==
    /\ fetched.fn = "fetch_events_by_kind"
    /\ fetched.raised = "convert_timestamp"
    /\ FirstFailure(fetched.found) > 1
    /\ fetched.value = <<>>

(***************************************************************************)
(* The fetch: subscriptions                                                *)
(***************************************************************************)
\* a message of the pool the call found carried the event of this id for the
\* subscription of the call, and the event matches the filters of the call
DeliveredForCall(event_id) ==
    \E i \in 1..Len(fetched.found) :
        /\ fetched.found[i].event.id = event_id
        /\ fetched.found[i].subscription_id = fetched.filters
        /\ Matches(fetched.found[i].event, fetched.filters)

\* the events of the pool the call found that were delivered for the
\* subscription of the call
EventsForCall ==
    {fetched.found[i].event :
         i \in {j \in 1..Len(fetched.found) :
                    fetched.found[j].subscription_id = fetched.filters}}

\* C26: every event fetch_events_by_kind returns was delivered for the
\* subscription of this call and matches the filters of this call, and every
\* follow fetch_existing_follows returns is a p tag of such an event, also
\* when earlier calls have left subscriptions with other filters.
C26_ReturnedEventsAreOfThisCall ==
    /\ fetched.fn = "fetch_events_by_kind" =>
           \A i \in 1..Len(fetched.value) :
               DeliveredForCall(fetched.value[i].EventID)
    /\ (fetched.fn = "fetch_existing_follows" /\ fetched.raised = "none") =>
           \A k \in fetched.value :
               \E e \in EventsForCall :
                   Matches(e, fetched.filters) /\ k \in PTagged(e)

(***************************************************************************)
(* Publishing the follow list: what each relay is sent                     *)
(***************************************************************************)
\* the passes of the for loop in which relay r was sent the contact event
PassesSentTo(r) == {i \in 1..Len(sent_to) : r \in sent_to[i]}

\* C27: when the for loop of update_follow_list has ended, every relay of
\* relay_urls was sent the contact event exactly once, in the pass of its
\* url, and the line printed for a url tells whether that relay was sent it.
C27_EachRelaySentOnce ==
    (follow_pc = "done" /\ Len(publish_log) = NumRelays) =>
        /\ \A r \in Relays :
               \/ PassesSentTo(r) = {r}
               \/ PassesSentTo(r) = {} /\ publish_log[r].outcome = "error"
        /\ \A i \in 1..Len(publish_log) :
               publish_log[i].outcome = "ok" <=> publish_log[i].url \in sent_to[i]

(***************************************************************************)
(* Proof of work: what a pass leaves alone                                 *)
(***************************************************************************)
\* the tags of a note that are not nonce tags, in order
OtherTags(n) == SelectSeq(n.tags, LAMBDA tag : tag[1] # "nonce")

\* C28: a pass of mine_note changes nothing of the note but its nonce tag,
\* its created_at and its id: pubkey, kind and content stay, and so does
\* every tag that is not the nonce tag.
C28_MiningKeepsTheOtherFields ==
    [][mine_pc = "loop" =>
          /\ note'.pubkey = note.pubkey
          /\ note'.kind = note.kind
          /\ note'.content = note.content
          /\ OtherTags(note') = OtherTags(note)
      ]_vars

(***************************************************************************)
(* The chat: a malformed message                                           *)
(***************************************************************************)
\* the input messages whose counterparty is k, with their types
MessagesWith(k) ==
    {Typed("sent", sent_msgs[i]) :
         i \in {j \in 1..Len(sent_msgs) :
                    IsCounterparty("sent", ChatEvent(sent_msgs[j].EventID), k)}}
    \cup {Typed("received", received_msgs[i]) :
              i \in {j \in 1..Len(received_msgs) :
                         IsCounterparty("received",
                                        ChatEvent(received_msgs[j].EventID), k)}}

\* C29: whatever malformed message the input holds (a sent message without
\* a p tag, a counterparty key that is not hexadecimal), the room of every
\* counterparty with a hexadecimal key is returned with its messages.
C29_MalformedMessageAffectsOnlyItself ==
    rooms.pc = "returned" =>
        \A k \in {2, 3} :
            MessagesWith(k) # {} =>
                /\ k \in DOMAIN rooms.value
                /\ Elems(rooms.value[k]) = MessagesWith(k)

(***************************************************************************)
(* The store: one row per key                                              *)
(***************************************************************************)
\* no two rows of table t in database d have the same value in column c
OneRowPer(d, t, c) == \A r, s \in d[t] : r[c] = s[c] => r = s

\* C30: whatever statements were executed, every table holds at most one
\* row per primary key and relays at most one row per relay_url; a save
\* whose primary key is stored is rejected with an integrity error and the
\* stored row keeps its field values.
C30_OneRowPerPrimaryKey ==
    /\ \A t \in Tables : OneRowPer(db, t, PrimaryKey(t))
    /\ OneRowPer(db, "relays", "relay_url")
    /\ (/\ lastOp.op = "save"
        /\ RowsWithKey(lastOp.before, lastOp.table, lastOp.key) # {})
       => /\ lastOp.result = "IntegrityError"
          /\ RowsWithKey(db, lastOp.table, lastOp.key) =
                 RowsWithKey(lastOp.before, lastOp.table, lastOp.key)
          /\ db = lastOp.before

\* a save with other field values was rejected for a key that is stored,
\* and the stored row is as it was
C30_Witness ==
    /\ lastOp.op = "save"
    /\ lastOp.result = "IntegrityError"
    /\ \E r \in db[lastOp.table] :
           /\ r[PrimaryKey(lastOp.table)] = lastOp.key
           /\ r # lastOp.row
           /\ r \in lastOp.before[lastOp.table]

====
